---- MODULE Spec2Model ----
(***************************************************************************)
(* helm-browser: the navigation state machine of main.go.                  *)
(*                                                                         *)
(* The Bubble Tea model (type model) is the record m; Update is the        *)
(* operator Update(mm, msg), translated branch by branch from              *)
(* model.Update and returning the pair (next model, command).  Every       *)
(* command returned by Init or Update runs concurrently: it is put into    *)
(* the bag inflight, and its result message is applied by a later Update.  *)
(*                                                                         *)
(* A Go string is a sequence of text parts, "" is <<>> and concatenation   *)
(* (fmt.Sprintf, +) is \o.  The separator "/" is always a part of its own, *)
(* so the chart name "repo1/chart2" is <<"repo1", "/", "chart2">>.         *)
(***************************************************************************)
EXTENDS Integers, Sequences, FiniteSets, Bags, TLC

VARIABLES
    m,          \* the model value held by the Bubble Tea program
    inflight,   \* bag of commands issued and not yet resolved into a message
    cmd,        \* the tea.Cmd returned by Init or by the last Update
    last,       \* the last message handed to Update (of a key press, only its type)
    files,      \* names of the files written by downloadValues
    run         \* "running", "quit" (tea.Quit returned) or "panic" (index out of range)

vars == <<m, inflight, cmd, last, files, run>>

----------------------------------------------------------------------------
(* Bounds of the model *)

\* longest list the external tool returns
MaxLen == 1

\* most commands running at the same time
MaxInflight == 2

----------------------------------------------------------------------------
(* Constants of the program *)

stateRepoUpdate == "stateRepoUpdate"
stateRepoList == "stateRepoList"
stateChartList == "stateChartList"
stateVersionList == "stateVersionList"
stateDownload == "stateDownload"
stateError == "stateError"
stateComplete == "stateComplete"

States ==
    {stateRepoUpdate, stateRepoList, stateChartList, stateVersionList,
     stateDownload, stateError, stateComplete}

ListStates == {stateRepoList, stateChartList, stateVersionList}

pageSize == 10

----------------------------------------------------------------------------
(* Keys: the values of tea.KeyMsg.String() *)

QuitKeys == {"ctrl+c", "q"}
UpKeys == {"up", "k"}
DownKeys == {"down", "j"}
EnterKeys == {"enter", " "}
BackKeys == {"backspace", "esc"}
DigitKeys == {"0", "1", "2", "3", "4", "5", "6", "7", "8", "9"}
OtherKeys == {"x", "tab"}

Keys ==
    QuitKeys \cup UpKeys \cup DownKeys \cup EnterKeys \cup BackKeys
        \cup DigitKeys \cup OtherKeys

\* len(msg.String()) == 1
IsOneChar(k) == k \in {"q", "k", "j", " ", "x"} \cup DigitKeys

\* strconv.Atoi on a one-character string: the digit's value, or an error (-1)
Atoi(k) ==
    CASE k = "0" -> 0 [] k = "1" -> 1 [] k = "2" -> 2 [] k = "3" -> 3
      [] k = "4" -> 4 [] k = "5" -> 5 [] k = "6" -> 6 [] k = "7" -> 7
      [] k = "8" -> 8 [] k = "9" -> 9 [] OTHER -> -1

----------------------------------------------------------------------------
(* The model and its helpers *)

initialModel ==
    [state |-> stateRepoUpdate,
     repos |-> <<>>,
     charts |-> <<>>,
     versions |-> <<>>,
     selectedRepo |-> 0,
     selectedChart |-> 0,
     selectedVersion |-> 0,
     cursor |-> 0,
     loading |-> TRUE,
     error |-> <<>>,
     message |-> <<>>]

getCurrentPage(mm) == mm.cursor \div pageSize

getPageStart(mm) == getCurrentPage(mm) * pageSize

\* getPageEnd without the clamp to the number of items
getPageEndUnclamped(mm, totalItems) == getPageStart(mm) + pageSize

getPageEnd(mm, totalItems) ==
    LET end == getPageStart(mm) + pageSize
    IN  IF end > totalItems THEN totalItems ELSE end

getCursorInPage(mm) == mm.cursor % pageSize

\* s[i] of a Go slice (0-based)
At(s, i) == s[i + 1]

----------------------------------------------------------------------------
(* Commands *)

NoCmd == [kind |-> "nil", args |-> <<>>]
\* not a tea.Cmd: Update did not return, an index was out of range
Panic == [kind |-> "panic", args |-> <<>>]
Quit == [kind |-> "Quit", args |-> <<>>]
updateReposCmd == [kind |-> "updateRepos", args |-> <<>>]
loadReposCmd == [kind |-> "loadRepos", args |-> <<>>]
loadChartsCmd(repoName) == [kind |-> "loadCharts", args |-> <<repoName>>]
loadVersionsCmd(chartName) == [kind |-> "loadVersions", args |-> <<chartName>>]
downloadValuesCmd(chartName, version) ==
    [kind |-> "downloadValues", args |-> <<chartName, version>>]

FetchKinds ==
    {"updateRepos", "loadRepos", "loadCharts", "loadVersions", "downloadValues"}

IsFetch(c) == c.kind \in FetchKinds

----------------------------------------------------------------------------
(* Messages *)

KeyMsg(k) == [type |-> "KeyMsg", key |-> k]
repoUpdateMsg == [type |-> "repoUpdateMsg"]
reposLoadedMsg(l) == [type |-> "reposLoadedMsg", list |-> l]
chartsLoadedMsg(l) == [type |-> "chartsLoadedMsg", list |-> l]
versionsLoadedMsg(l) == [type |-> "versionsLoadedMsg", list |-> l]
downloadCompleteMsg(s) == [type |-> "downloadCompleteMsg", text |-> s]
errorMsg(s) == [type |-> "errorMsg", text |-> s]

----------------------------------------------------------------------------
(* The external tool.  A run of helm ends with an error (non-zero exit or  *)
(* spawn failure, with text on standard error) or with its standard        *)
(* output: nothing, text that is no JSON, or a JSON array of n entries.    *)

ListLens == {0, MaxLen}

\* err.Error() of exec's error: the exit status, never the standard error text
ExitText == <<"exit status 1">>
StderrText == <<"no such repo">>
ParseText == <<"invalid character 'E' looking for beginning of value">>
WriteText == <<"permission denied">>

ToolFailed == [err |-> TRUE, stderr |-> StderrText, output |-> "empty", n |-> 0]
ToolEmpty == [err |-> FALSE, stderr |-> <<>>, output |-> "empty", n |-> 0]
ToolGarbage == [err |-> FALSE, stderr |-> <<>>, output |-> "garbage", n |-> 0]
ToolJSON(n) == [err |-> FALSE, stderr |-> <<>>, output |-> "json", n |-> n]

ListOutcomes == {ToolFailed, ToolEmpty, ToolGarbage} \cup {ToolJSON(n) : n \in ListLens}

\* helm repo update: only the exit status is read
UpdateOutcomes == {ToolFailed, ToolEmpty}

\* helm show values, then os.WriteFile: w is TRUE when the write fails
DownloadOutcomes == {[tool |-> t, w |-> w] : t \in {ToolFailed, ToolEmpty}, w \in BOOLEAN}

\* what helm repo list prints, parsed: n repositories
RepoList(n) ==
    [i \in 1..n |-> [Name |-> <<"repo" \o ToString(i)>>, URL |-> <<"url" \o ToString(i)>>]]

\* what helm search repo <repoName>/ prints, parsed: n charts of that repository
ChartList(repoName, n) ==
    [j \in 1..n |->
        [Name |-> repoName \o <<"/", "chart" \o ToString(j)>>,
         Version |-> <<"v" \o ToString(n)>>]]

\* what helm search repo <chartName> --versions prints, parsed: newest first
VersionList(chartName, n) ==
    [k \in 1..n |-> [Name |-> chartName, Version |-> <<"v" \o ToString(n + 1 - k)>>]]

----------------------------------------------------------------------------
(* The commands' bodies: the message a command resolves into *)

updateRepos(o) ==
    IF o.err
    THEN errorMsg(<<"Failed to update repos: ">> \o ExitText)
    ELSE repoUpdateMsg

loadRepos(o) ==
    IF o.err
    THEN errorMsg(<<"Failed to list repos: ">> \o ExitText)
    ELSE IF o.output = "garbage"
    THEN errorMsg(<<"Failed to parse repos: ">> \o ParseText)
    ELSE reposLoadedMsg(IF o.output = "empty" THEN <<>> ELSE RepoList(o.n))

loadCharts(repoName, o) ==
    IF o.err
    THEN errorMsg(<<"Failed to search charts: ">> \o ExitText)
    ELSE IF o.output = "garbage"
    THEN errorMsg(<<"Failed to parse charts: ">> \o ParseText)
    ELSE chartsLoadedMsg(IF o.output = "empty" THEN <<>> ELSE ChartList(repoName, o.n))

loadVersions(chartName, o) ==
    IF o.err
    THEN errorMsg(<<"Failed to search versions: ">> \o ExitText)
    ELSE IF o.output = "garbage"
    THEN errorMsg(<<"Failed to parse versions: ">> \o ParseText)
    ELSE versionsLoadedMsg(
            IF o.output = "empty" THEN <<>> ELSE VersionList(chartName, o.n))

\* strings.TrimPrefix(s, prefix)
TrimPrefix(s, prefix) ==
    IF Len(s) >= Len(prefix) /\ SubSeq(s, 1, Len(prefix)) = prefix
    THEN SubSeq(s, Len(prefix) + 1, Len(s))
    ELSE s

\* LastPart taking everything after the first "/" instead of the last part
LastPartAfterFirst(s) ==
    LET slashes == {i \in 1..Len(s) : s[i] = "/"}
    IN  IF slashes = {} THEN s
        ELSE SubSeq(s, (CHOOSE i \in slashes : \A j \in slashes : i <= j) + 1, Len(s))

\* strings.Split(chartName, "/"), then the last part
RECURSIVE LastPart(_)
LastPart(s) ==
    IF s = <<>> THEN <<>>
    ELSE IF s[Len(s)] = "/" THEN <<>>
    ELSE LastPart(SubSeq(s, 1, Len(s) - 1)) \o <<s[Len(s)]>>

Filename(chartName, version) ==
    LastPart(chartName) \o <<"-">> \o version \o <<"-default-values.yaml">>

\* downloadValues not looking at the error of os.WriteFile
downloadValuesUnchecked(chartName, version, o) ==
    IF o.tool.err
    THEN errorMsg(<<"Failed to get chart values: ">> \o ExitText)
    ELSE downloadCompleteMsg(Filename(chartName, version))

downloadValues(chartName, version, o) ==
    IF o.tool.err
    THEN errorMsg(<<"Failed to get chart values: ">> \o ExitText)
    ELSE IF o.w
    THEN errorMsg(<<"Failed to write values file: ">> \o WriteText)
    ELSE downloadCompleteMsg(Filename(chartName, version))

----------------------------------------------------------------------------
(* Update *)

Ret(mm, c) == [m |-> mm, cmd |-> c]

\* UpdateUp wrapping from the first row to the last
UpdateUpWraps(mm) ==
    CASE mm.state = stateRepoList ->
            IF mm.cursor > 0 THEN [mm EXCEPT !.cursor = @ - 1]
            ELSE IF Len(mm.repos) > 0 THEN [mm EXCEPT !.cursor = Len(mm.repos) - 1] ELSE mm
      [] mm.state = stateChartList ->
            IF mm.cursor > 0 THEN [mm EXCEPT !.cursor = @ - 1]
            ELSE IF Len(mm.charts) > 0 THEN [mm EXCEPT !.cursor = Len(mm.charts) - 1] ELSE mm
      [] mm.state = stateVersionList ->
            IF mm.cursor > 0 THEN [mm EXCEPT !.cursor = @ - 1]
            ELSE IF Len(mm.versions) > 0 THEN [mm EXCEPT !.cursor = Len(mm.versions) - 1]
            ELSE mm
      [] OTHER -> mm

\* case "up", "k"
UpdateUp(mm) ==
    CASE mm.state = stateRepoList ->
            IF mm.cursor > 0 THEN [mm EXCEPT !.cursor = @ - 1] ELSE mm
      [] mm.state = stateChartList ->
            IF mm.cursor > 0 THEN [mm EXCEPT !.cursor = @ - 1] ELSE mm
      [] mm.state = stateVersionList ->
            IF mm.cursor > 0 THEN [mm EXCEPT !.cursor = @ - 1] ELSE mm
      [] OTHER -> mm

\* UpdateDown with the bound len instead of len - 1
UpdateDownPastEnd(mm) ==
    CASE mm.state = stateRepoList ->
            IF mm.cursor < Len(mm.repos) THEN [mm EXCEPT !.cursor = @ + 1] ELSE mm
      [] mm.state = stateChartList ->
            IF mm.cursor < Len(mm.charts) THEN [mm EXCEPT !.cursor = @ + 1] ELSE mm
      [] mm.state = stateVersionList ->
            IF mm.cursor < Len(mm.versions) THEN [mm EXCEPT !.cursor = @ + 1] ELSE mm
      [] OTHER -> mm

\* case "down", "j"
UpdateDown(mm) ==
    CASE mm.state = stateRepoList ->
            IF mm.cursor < Len(mm.repos) - 1 THEN [mm EXCEPT !.cursor = @ + 1] ELSE mm
      [] mm.state = stateChartList ->
            IF mm.cursor < Len(mm.charts) - 1 THEN [mm EXCEPT !.cursor = @ + 1] ELSE mm
      [] mm.state = stateVersionList ->
            IF mm.cursor < Len(mm.versions) - 1 THEN [mm EXCEPT !.cursor = @ + 1] ELSE mm
      [] OTHER -> mm

\* SelectRepo reading the name after the cursor was reset to 0
SelectRepoFetchesAtCursor(mm, i) ==
    IF i >= Len(mm.repos) THEN Ret(mm, Panic)
    ELSE Ret([mm EXCEPT !.selectedRepo = i,
                        !.cursor = 0,
                        !.loading = TRUE,
                        !.state = stateChartList],
             loadChartsCmd(At(mm.repos, 0).Name))

\* the selection of repository i: lines 296-300 and 354-358
SelectRepo(mm, i) ==
    IF i >= Len(mm.repos) THEN Ret(mm, Panic)
    ELSE Ret([mm EXCEPT !.selectedRepo = i,
                        !.cursor = 0,
                        !.loading = TRUE,
                        !.state = stateChartList],
             loadChartsCmd(At(mm.repos, i).Name))

\* SelectChart leaving the cursor where it was
SelectChartKeepsCursor(mm, i) ==
    IF i >= Len(mm.charts) THEN Ret(mm, Panic)
    ELSE Ret([mm EXCEPT !.selectedChart = i,
                        !.loading = TRUE,
                        !.state = stateVersionList],
             loadVersionsCmd(At(mm.charts, i).Name))

\* the selection of chart i: lines 304-308 and 364-368
SelectChart(mm, i) ==
    IF i >= Len(mm.charts) THEN Ret(mm, Panic)
    ELSE Ret([mm EXCEPT !.selectedChart = i,
                        !.cursor = 0,
                        !.loading = TRUE,
                        !.state = stateVersionList],
             loadVersionsCmd(At(mm.charts, i).Name))

\* SelectVersion putting the cursor on the first row
SelectVersionResetsCursor(mm, i) ==
    IF i >= Len(mm.versions) THEN Ret(mm, Panic)
    ELSE Ret([mm EXCEPT !.selectedVersion = i,
                        !.cursor = 0,
                        !.loading = TRUE,
                        !.state = stateDownload],
             downloadValuesCmd(At(mm.versions, i).Name, At(mm.versions, i).Version))

\* the selection of version i: lines 312-315 and 374-377
SelectVersion(mm, i) ==
    IF i >= Len(mm.versions) THEN Ret(mm, Panic)
    ELSE Ret([mm EXCEPT !.selectedVersion = i,
                        !.loading = TRUE,
                        !.state = stateDownload],
             downloadValuesCmd(At(mm.versions, i).Name, At(mm.versions, i).Version))

\* UpdateEnter without the test that the list has a row
UpdateEnterUnguarded(mm) ==
    CASE mm.state = stateRepoList -> SelectRepo(mm, mm.cursor)
      [] mm.state = stateChartList -> SelectChart(mm, mm.cursor)
      [] mm.state = stateVersionList -> SelectVersion(mm, mm.cursor)
      [] mm.state = stateComplete -> Ret(mm, Quit)
      [] OTHER -> Ret(mm, NoCmd)

\* UpdateEnter leaving the program on the download screen
UpdateEnterQuitsOnDownload(mm) ==
    CASE mm.state = stateRepoList ->
            IF Len(mm.repos) > 0 THEN SelectRepo(mm, mm.cursor) ELSE Ret(mm, NoCmd)
      [] mm.state = stateChartList ->
            IF Len(mm.charts) > 0 THEN SelectChart(mm, mm.cursor) ELSE Ret(mm, NoCmd)
      [] mm.state = stateVersionList ->
            IF Len(mm.versions) > 0 THEN SelectVersion(mm, mm.cursor) ELSE Ret(mm, NoCmd)
      [] mm.state \in {stateComplete, stateDownload} -> Ret(mm, Quit)
      [] OTHER -> Ret(mm, NoCmd)

\* case "enter", " "
UpdateEnter(mm) ==
    CASE mm.state = stateRepoList ->
            IF Len(mm.repos) > 0 THEN SelectRepo(mm, mm.cursor) ELSE Ret(mm, NoCmd)
      [] mm.state = stateChartList ->
            IF Len(mm.charts) > 0 THEN SelectChart(mm, mm.cursor) ELSE Ret(mm, NoCmd)
      [] mm.state = stateVersionList ->
            IF Len(mm.versions) > 0 THEN SelectVersion(mm, mm.cursor) ELSE Ret(mm, NoCmd)
      [] mm.state = stateComplete -> Ret(mm, Quit)
      [] OTHER -> Ret(mm, NoCmd)

\* UpdateBack putting the cursor on the first row
UpdateBackToTop(mm) ==
    CASE mm.state = stateChartList ->
            Ret([mm EXCEPT !.state = stateRepoList,
                           !.cursor = 0,
                           !.charts = <<>>],
                NoCmd)
      [] mm.state = stateVersionList ->
            Ret([mm EXCEPT !.state = stateChartList,
                           !.cursor = 0,
                           !.versions = <<>>],
                NoCmd)
      [] mm.state = stateComplete -> Ret(mm, Quit)
      [] OTHER -> Ret(mm, NoCmd)

\* UpdateBack leaving the download screen for the version list
UpdateBackFromDownload(mm) ==
    CASE mm.state = stateChartList ->
            Ret([mm EXCEPT !.state = stateRepoList,
                           !.cursor = mm.selectedRepo,
                           !.charts = <<>>],
                NoCmd)
      [] mm.state = stateVersionList ->
            Ret([mm EXCEPT !.state = stateChartList,
                           !.cursor = mm.selectedChart,
                           !.versions = <<>>],
                NoCmd)
      [] mm.state = stateDownload ->
            Ret([mm EXCEPT !.state = stateVersionList], NoCmd)
      [] mm.state = stateComplete -> Ret(mm, Quit)
      [] OTHER -> Ret(mm, NoCmd)

\* UpdateBack clearing the loading flag
UpdateBackClearsLoading(mm) ==
    CASE mm.state = stateChartList ->
            Ret([mm EXCEPT !.state = stateRepoList,
                           !.cursor = mm.selectedRepo,
                           !.loading = FALSE,
                           !.charts = <<>>],
                NoCmd)
      [] mm.state = stateVersionList ->
            Ret([mm EXCEPT !.state = stateChartList,
                           !.cursor = mm.selectedChart,
                           !.loading = FALSE,
                           !.versions = <<>>],
                NoCmd)
      [] mm.state = stateComplete -> Ret(mm, Quit)
      [] OTHER -> Ret(mm, NoCmd)

\* UpdateBack listing the repositories again from the repository list
UpdateBackReloadsRepos(mm) ==
    CASE mm.state = stateRepoList -> Ret([mm EXCEPT !.loading = TRUE], loadReposCmd)
      [] mm.state = stateChartList ->
            Ret([mm EXCEPT !.state = stateRepoList,
                           !.cursor = mm.selectedRepo,
                           !.charts = <<>>],
                NoCmd)
      [] mm.state = stateVersionList ->
            Ret([mm EXCEPT !.state = stateChartList,
                           !.cursor = mm.selectedChart,
                           !.versions = <<>>],
                NoCmd)
      [] mm.state = stateComplete -> Ret(mm, Quit)
      [] OTHER -> Ret(mm, NoCmd)

\* case "backspace", "esc"
UpdateBack(mm) ==
    CASE mm.state = stateChartList ->
            Ret([mm EXCEPT !.state = stateRepoList,
                           !.cursor = mm.selectedRepo,
                           !.charts = <<>>],
                NoCmd)
      [] mm.state = stateVersionList ->
            Ret([mm EXCEPT !.state = stateChartList,
                           !.cursor = mm.selectedChart,
                           !.versions = <<>>],
                NoCmd)
      [] mm.state = stateComplete -> Ret(mm, Quit)
      [] OTHER -> Ret(mm, NoCmd)

\* UpdateNumber counting from the first row of the list, not of the page
UpdateNumberFirstPage(mm, num) ==
    LET absoluteIndex == num - 1
    IN  CASE mm.state = stateRepoList ->
                IF absoluteIndex < Len(mm.repos)
                THEN SelectRepo(mm, absoluteIndex) ELSE [m |-> mm, cmd |-> NoCmd]
          [] mm.state = stateChartList ->
                IF absoluteIndex < Len(mm.charts)
                THEN SelectChart(mm, absoluteIndex) ELSE [m |-> mm, cmd |-> NoCmd]
          [] mm.state = stateVersionList ->
                IF absoluteIndex < Len(mm.versions)
                THEN SelectVersion(mm, absoluteIndex) ELSE [m |-> mm, cmd |-> NoCmd]
          [] OTHER -> [m |-> mm, cmd |-> NoCmd]

\* UpdateNumber accepting the index one past the end of the list
UpdateNumberInclusive(mm, num) ==
    LET absoluteIndex == getPageStart(mm) + num - 1
    IN  CASE mm.state = stateRepoList ->
                IF absoluteIndex <= Len(mm.repos)
                THEN SelectRepo(mm, absoluteIndex) ELSE [m |-> mm, cmd |-> NoCmd]
          [] mm.state = stateChartList ->
                IF absoluteIndex <= Len(mm.charts)
                THEN SelectChart(mm, absoluteIndex) ELSE [m |-> mm, cmd |-> NoCmd]
          [] mm.state = stateVersionList ->
                IF absoluteIndex <= Len(mm.versions)
                THEN SelectVersion(mm, absoluteIndex) ELSE [m |-> mm, cmd |-> NoCmd]
          [] OTHER -> [m |-> mm, cmd |-> NoCmd]

\* the number shortcuts of the default case
UpdateNumber(mm, num) ==
    LET absoluteIndex == getPageStart(mm) + num - 1
    IN  CASE mm.state = stateRepoList ->
                IF absoluteIndex < Len(mm.repos)
                THEN SelectRepo(mm, absoluteIndex) ELSE Ret(mm, NoCmd)
          [] mm.state = stateChartList ->
                IF absoluteIndex < Len(mm.charts)
                THEN SelectChart(mm, absoluteIndex) ELSE Ret(mm, NoCmd)
          [] mm.state = stateVersionList ->
                IF absoluteIndex < Len(mm.versions)
                THEN SelectVersion(mm, absoluteIndex) ELSE Ret(mm, NoCmd)
          [] OTHER -> Ret(mm, NoCmd)

\* UpdateDefault with "any key exits" on the error screen too
UpdateDefaultQuitsOnError(mm, k) ==
    IF mm.state = stateComplete \/ mm.state = stateError THEN [m |-> mm, cmd |-> Quit]
    ELSE IF IsOneChar(k) /\ Atoi(k) >= 1 /\ Atoi(k) <= pageSize
    THEN UpdateNumber(mm, Atoi(k))
    ELSE [m |-> mm, cmd |-> NoCmd]

\* default: any other key
UpdateDefault(mm, k) ==
    IF mm.state = stateComplete THEN Ret(mm, Quit)
    ELSE IF IsOneChar(k) /\ Atoi(k) >= 1 /\ Atoi(k) <= pageSize
    THEN UpdateNumber(mm, Atoi(k))
    ELSE Ret(mm, NoCmd)

\* UpdateKey ignoring q and ctrl+c while a fetch is loading
UpdateKeyQuitWhenIdle(mm, k) ==
    CASE k \in QuitKeys -> Ret(mm, IF mm.loading THEN NoCmd ELSE Quit)
      [] k \in UpKeys -> Ret(UpdateUp(mm), NoCmd)
      [] k \in DownKeys -> Ret(UpdateDown(mm), NoCmd)
      [] k \in EnterKeys -> UpdateEnter(mm)
      [] k \in BackKeys -> UpdateBack(mm)
      [] OTHER -> UpdateDefault(mm, k)

\* case tea.KeyMsg
UpdateKey(mm, k) ==
    CASE k \in QuitKeys -> Ret(mm, Quit)
      [] k \in UpKeys -> Ret(UpdateUp(mm), NoCmd)
      [] k \in DownKeys -> Ret(UpdateDown(mm), NoCmd)
      [] k \in EnterKeys -> UpdateEnter(mm)
      [] k \in BackKeys -> UpdateBack(mm)
      [] OTHER -> UpdateDefault(mm, k)

\* case repoUpdateMsg
OnRepoUpdate(mm) == Ret([mm EXCEPT !.loading = TRUE], loadReposCmd)

\* case reposLoadedMsg
OnReposLoaded(mm, l) ==
    Ret([mm EXCEPT !.repos = l, !.loading = FALSE, !.state = stateRepoList, !.cursor = 0],
        NoCmd)

\* OnChartsLoaded switching to the chart list
OnChartsLoadedEntersList(mm, l) ==
    Ret([mm EXCEPT !.charts = l, !.loading = FALSE, !.cursor = 0,
                   !.state = stateChartList],
        NoCmd)

\* case chartsLoadedMsg
OnChartsLoaded(mm, l) ==
    Ret([mm EXCEPT !.charts = l, !.loading = FALSE, !.cursor = 0], NoCmd)

\* OnVersionsLoaded without m.loading = false
OnVersionsLoadedKeepsLoading(mm, l) ==
    Ret([mm EXCEPT !.versions = l, !.cursor = 0], NoCmd)

\* case versionsLoadedMsg
OnVersionsLoaded(mm, l) ==
    Ret([mm EXCEPT !.versions = l, !.loading = FALSE, !.cursor = 0], NoCmd)

\* OnDownloadComplete with a message that does not name the file
OnDownloadCompleteUnnamed(mm, s) ==
    Ret([mm EXCEPT !.loading = FALSE,
                   !.state = stateComplete,
                   !.message = <<"Successfully downloaded: ">>],
        NoCmd)

\* case downloadCompleteMsg
OnDownloadComplete(mm, s) ==
    Ret([mm EXCEPT !.loading = FALSE,
                   !.state = stateComplete,
                   !.message = <<"Successfully downloaded: ">> \o s],
        NoCmd)

\* OnError without m.loading = false
OnErrorKeepsLoading(mm, s) ==
    [m |-> [mm EXCEPT !.state = stateError, !.error = s], cmd |-> NoCmd]

\* OnError keeping an error text stored earlier
OnErrorKeepsFirstText(mm, s) ==
    [m |-> [mm EXCEPT !.loading = FALSE,
                      !.state = stateError,
                      !.error = IF mm.error = <<>> THEN s ELSE mm.error],
     cmd |-> NoCmd]

\* case errorMsg
OnError(mm, s) ==
    Ret([mm EXCEPT !.loading = FALSE, !.state = stateError, !.error = s], NoCmd)

Update(mm, msg) ==
    CASE msg.type = "KeyMsg" -> UpdateKey(mm, msg.key)
      [] msg.type = "repoUpdateMsg" -> OnRepoUpdate(mm)
      [] msg.type = "reposLoadedMsg" -> OnReposLoaded(mm, msg.list)
      [] msg.type = "chartsLoadedMsg" -> OnChartsLoaded(mm, msg.list)
      [] msg.type = "versionsLoadedMsg" -> OnVersionsLoaded(mm, msg.list)
      [] msg.type = "downloadCompleteMsg" -> OnDownloadComplete(mm, msg.text)
      [] msg.type = "errorMsg" -> OnError(mm, msg.text)
      [] OTHER -> Ret(mm, NoCmd)

\* View indexes repos[selectedRepo] and charts[selectedChart] without a check
ViewPanics(mm) ==
    \/ /\ mm.state = stateChartList
       /\ ~mm.loading
       /\ mm.selectedRepo >= Len(mm.repos)
    \/ /\ mm.state = stateVersionList
       /\ ~mm.loading
       /\ (mm.selectedChart >= Len(mm.charts) \/ mm.selectedRepo >= Len(mm.repos))

\* the sequence the current screen displays
Displayed(mm) ==
    CASE mm.state = stateRepoList -> mm.repos
      [] mm.state = stateChartList -> mm.charts
      [] mm.state = stateVersionList -> mm.versions
      [] OTHER -> <<>>

\* the indexes of the rows View draws on a list screen that is not loading:
\* for i := start; i < end; i++
ViewRows(mm) ==
    LET start == getPageStart(mm)
        end == getPageEnd(mm, Len(Displayed(mm)))
    IN  [j \in 1..(end - start) |-> start + j - 1]

\* ViewMarked comparing the row index with the cursor's position in the page
ViewMarkedInPage(mm) ==
    {j \in DOMAIN ViewRows(mm) : ViewRows(mm)[j] = getCursorInPage(mm)}

\* the displayed rows (1 is the first row drawn) that View draws with the
\* marker: if i == m.cursor
ViewMarked(mm) ==
    {j \in DOMAIN ViewRows(mm) : ViewRows(mm)[j] = mm.cursor}

----------------------------------------------------------------------------
(* The event loop of tea.Program: one message at a time goes through       *)
(* Update, the returned command is started, then View draws the model.     *)

Init ==
    /\ m = initialModel
    /\ inflight = SetToBag({updateReposCmd})
    /\ cmd = updateReposCmd
    /\ last = [type |-> "Init"]
    /\ files = {}
    /\ run = "running"

\* Update on msg; rest is the bag of the commands still running
Apply(msg, rest) ==
    LET r == Update(m, msg)
    IN  /\ last' = (IF msg.type = "KeyMsg" THEN [type |-> "KeyMsg"] ELSE msg)
        /\ cmd' = r.cmd
        /\ IF r.cmd = Panic
           THEN /\ m' = m
                /\ inflight' = rest
                /\ run' = "panic"
           ELSE /\ m' = r.m
                /\ inflight' = IF IsFetch(r.cmd) THEN rest (+) SetToBag({r.cmd}) ELSE rest
                /\ run' = IF r.cmd = Quit THEN "quit"
                          ELSE IF ViewPanics(r.m) THEN "panic"
                          ELSE "running"

\* the user presses key k
KeyPress(k) ==
    /\ run = "running"
    /\ IsFetch(Update(m, KeyMsg(k)).cmd) => BagCardinality(inflight) < MaxInflight
    /\ Apply(KeyMsg(k), inflight)
    /\ UNCHANGED files

\* a running command c ends and its message is applied
ResolveUpdateRepos ==
    \E c \in BagToSet(inflight), o \in UpdateOutcomes :
        /\ run = "running"
        /\ c.kind = "updateRepos"
        /\ Apply(updateRepos(o), inflight (-) SetToBag({c}))
        /\ UNCHANGED files

ResolveLoadRepos ==
    \E c \in BagToSet(inflight), o \in ListOutcomes :
        /\ run = "running"
        /\ c.kind = "loadRepos"
        /\ Apply(loadRepos(o), inflight (-) SetToBag({c}))
        /\ UNCHANGED files

ResolveLoadCharts ==
    \E c \in BagToSet(inflight), o \in ListOutcomes :
        /\ run = "running"
        /\ c.kind = "loadCharts"
        /\ Apply(loadCharts(c.args[1], o), inflight (-) SetToBag({c}))
        /\ UNCHANGED files

ResolveLoadVersions ==
    \E c \in BagToSet(inflight), o \in ListOutcomes :
        /\ run = "running"
        /\ c.kind = "loadVersions"
        /\ Apply(loadVersions(c.args[1], o), inflight (-) SetToBag({c}))
        /\ UNCHANGED files

ResolveDownloadValues ==
    \E c \in BagToSet(inflight), o \in DownloadOutcomes :
        /\ run = "running"
        /\ c.kind = "downloadValues"
        /\ Apply(downloadValues(c.args[1], c.args[2], o), inflight (-) SetToBag({c}))
        /\ files' = IF ~o.tool.err /\ ~o.w
                    THEN files \cup {Filename(c.args[1], c.args[2])}
                    ELSE files

Next ==
    \/ \E k \in Keys : KeyPress(k)
    \/ ResolveUpdateRepos
    \/ ResolveLoadRepos
    \/ ResolveLoadCharts
    \/ ResolveLoadVersions
    \/ ResolveDownloadValues

Spec == Init /\ [][Next]_vars

\* Every command runs in its own goroutine and its message is sent to the
\* program: a subprocess that terminates has its message applied, unless the
\* program has ended before.  Key presses are up to the user: no fairness.
Fairness ==
    /\ WF_vars(ResolveUpdateRepos)
    /\ WF_vars(ResolveLoadRepos)
    /\ WF_vars(ResolveLoadCharts)
    /\ WF_vars(ResolveLoadVersions)
    /\ WF_vars(ResolveDownloadValues)

SpecFair == Init /\ [][Next]_vars /\ Fairness

----------------------------------------------------------------------------
(* The same program with lists longer than one page.  Here the user waits  *)
(* for the result of a fetch before pressing the next key, so that no      *)
(* earlier fetch is still running when a key is handled.                   *)

\* a list of more than one page: its second page holds MaxLen + 1 rows
LongLen == pageSize + MaxLen + 1

\* the tool's data: the first repository holds a long list of charts and the
\* first chart of a repository a long list of versions, the others MaxLen
ChartCount(repoName) == IF repoName = <<"repo1">> THEN LongLen ELSE MaxLen

VersionCount(chartName) ==
    IF chartName[Len(chartName)] = "chart1" THEN LongLen ELSE MaxLen

\* the runs of the tool that list n entries, and the runs that fail
LongOutcomes(n) == {ToolFailed, ToolEmpty, ToolGarbage, ToolJSON(n)}

\* the user presses key k while no command is running
PatientKeyPress(k) ==
    /\ BagCardinality(inflight) = 0
    /\ KeyPress(k)

LongLoadRepos ==
    \E c \in BagToSet(inflight), o \in LongOutcomes(LongLen) :
        /\ run = "running"
        /\ c.kind = "loadRepos"
        /\ Apply(loadRepos(o), inflight (-) SetToBag({c}))
        /\ UNCHANGED files

LongLoadCharts ==
    \E c \in BagToSet(inflight) :
      \E o \in (IF c.kind = "loadCharts" THEN LongOutcomes(ChartCount(c.args[1])) ELSE {}) :
        /\ run = "running"
        /\ Apply(loadCharts(c.args[1], o), inflight (-) SetToBag({c}))
        /\ UNCHANGED files

LongLoadVersions ==
    \E c \in BagToSet(inflight) :
      \E o \in (IF c.kind = "loadVersions" THEN LongOutcomes(VersionCount(c.args[1])) ELSE {}) :
        /\ run = "running"
        /\ Apply(loadVersions(c.args[1], o), inflight (-) SetToBag({c}))
        /\ UNCHANGED files

NextPage ==
    \/ \E k \in Keys : PatientKeyPress(k)
    \/ ResolveUpdateRepos
    \/ LongLoadRepos
    \/ LongLoadCharts
    \/ LongLoadVersions
    \/ ResolveDownloadValues

SpecPage == Init /\ [][NextPage]_vars

----------------------------------------------------------------------------
(* A third specification for the page arithmetic: the repository list has   *)
(* just been loaded with 1..MaxRows repositories, and the user only moves   *)
(* the cursor, so every cursor position of every length is visited.         *)

MaxRows == 25

\* the state after reposLoadedMsg delivered L repositories
InitRows ==
    \E L \in 1..MaxRows :
        /\ m = OnReposLoaded(OnRepoUpdate(initialModel).m, RepoList(L)).m
        /\ inflight = EmptyBag
        /\ cmd = NoCmd
        /\ last = reposLoadedMsg(RepoList(L))
        /\ files = {}
        /\ run = "running"

MoveCursor == \E k \in UpKeys \cup DownKeys : KeyPress(k)

NextRows == MoveCursor

SpecRows == InitRows /\ [][NextRows]_vars

----------------------------------------------------------------------------
(* A fourth specification for the name of the values file: helm has listed  *)
(* one chart under a name of 1..MaxSegments parts separated by "/", the     *)
(* user has selected its one version and the download is running.           *)

MaxSegments == 3

NameSegments == {"repo1", "sub", "chart1"}

\* the chart names of k parts
RECURSIVE QualifiedNames(_)
QualifiedNames(k) ==
    IF k = 1 THEN {<<p>> : p \in NameSegments}
    ELSE {n \o <<"/", p>> : n \in QualifiedNames(k - 1), p \in NameSegments}

NameVersions == {<<"v1">>, <<"v2">>}

\* the state after enter on the version list of a chart called name
InitNames ==
    \E k \in 1..MaxSegments :
      \E name \in QualifiedNames(k), v \in NameVersions :
        LET repoName == IF k > 1 THEN <<name[1]>> ELSE <<"repo1">>
            listed == [initialModel EXCEPT
                          !.state = stateVersionList,
                          !.loading = FALSE,
                          !.repos = <<[Name |-> repoName, URL |-> <<"url1">>]>>,
                          !.charts = <<[Name |-> name, Version |-> v]>>,
                          !.versions = <<[Name |-> name, Version |-> v]>>]
            sel == UpdateEnter(listed)
        IN  /\ m = sel.m
            /\ inflight = SetToBag({sel.cmd})
            /\ cmd = sel.cmd
            /\ last = [type |-> "KeyMsg"]
            /\ files = {}
            /\ run = "running"

NextNames ==
    \/ \E k \in Keys : KeyPress(k)
    \/ ResolveDownloadValues

SpecNames == InitNames /\ [][NextNames]_vars

----------------------------------------------------------------------------
(* A fifth specification for results that arrive late: the repository list  *)
(* has been loaded with MaxLen + 1 repositories, so that fetches for        *)
(* different repositories can be in flight together.                        *)

\* the state after reposLoadedMsg delivered MaxLen + 1 repositories
InitRace ==
    /\ m = OnReposLoaded(OnRepoUpdate(initialModel).m, RepoList(MaxLen + 1)).m
    /\ inflight = EmptyBag
    /\ cmd = NoCmd
    /\ last = reposLoadedMsg(RepoList(MaxLen + 1))
    /\ files = {}
    /\ run = "running"

NextRace ==
    \/ \E k \in Keys : KeyPress(k)
    \/ ResolveLoadCharts
    \/ ResolveLoadVersions
    \/ ResolveDownloadValues

SpecRace == InitRace /\ [][NextRace]_vars

----------------------------------------------------------------------------
(* Properties *)

C2_AtMostOneInFlight == BagCardinality(inflight) <= 1

InFlight(kind) == \E c \in BagToSet(inflight) : c.kind = kind

\* C3: Update returns no loadCharts (loadVersions, downloadValues) in a state
\* where loading is true and an earlier command of that kind is still running
C3_NoFetchWhileLoading ==
    [][\A kind \in {"loadCharts", "loadVersions", "downloadValues"} :
          (m.loading /\ InFlight(kind)) => cmd'.kind # kind]_vars

\* C4: loading is true only while some issued command is not yet resolved
C4_LoadingHasFetch == m.loading => BagCardinality(inflight) >= 1

\* a chart was selected: loading is set and loadVersions is running
C4_Witness ==
    /\ m.loading
    /\ m.state = stateVersionList
    /\ cmd.kind = "loadVersions"
    /\ InFlight("loadVersions")

NavKeys == EnterKeys \cup DigitKeys \cup BackKeys

\* C5: while loading is true a select key or a back key leaves the model
\* unchanged and returns no command
C5_NavIgnoredWhileLoading ==
    (m.loading /\ run = "running") =>
        \A k \in NavKeys : Update(m, KeyMsg(k)) = Ret(m, NoCmd)

\* C6: an errorMsg, applied on any screen, sets stateError, stores the text
\* of the message, clears loading and returns no command
C6_ErrorMsgFails ==
    last.type = "errorMsg" =>
        /\ m.state = stateError
        /\ m.error = last.text
        /\ ~m.loading
        /\ cmd = NoCmd

\* an errorMsg of an earlier fetch applied after the download completed:
\* the success message is still stored, the screen is the error screen
C6_Witness ==
    /\ last.type = "errorMsg"
    /\ m.state = stateError
    /\ m.message # <<>>
    /\ m.error = last.text

\* C7: on the error screen no event other than quit changes the model
C7_FailedAbsorbing ==
    [][(m.state = stateError /\ cmd'.kind # "Quit") => m' = m]_vars

\* C8: once the screen is stateComplete it stays stateComplete
C8_CompleteTerminal ==
    [][m.state = stateComplete => m'.state = stateComplete]_vars

\* C9: every key pressed on the complete screen returns tea.Quit
C9_AnyKeyQuitsOnComplete ==
    (m.state = stateComplete /\ last.type = "KeyMsg") => cmd = Quit

\* C10 as claimed: every key pressed on the error screen returns tea.Quit
C10_AnyKeyQuitsOnError ==
    (m.state = stateError /\ last.type = "KeyMsg") => cmd = Quit

\* C10 amended: on the error screen q and ctrl+c return tea.Quit, and every
\* other key returns no command and leaves the model unchanged
C10_OnlyQuitKeysQuitOnError ==
    m.state = stateError =>
        \A k \in Keys :
            Update(m, KeyMsg(k)) = Ret(m, IF k \in QuitKeys THEN Quit ELSE NoCmd)

\* a key other than q and ctrl+c was pressed on the error screen and the
\* program is still running
C10_Witness ==
    /\ m.state = stateError
    /\ last.type = "KeyMsg"
    /\ cmd = NoCmd
    /\ run = "running"

\* text t occurs in text s
Contains(s, t) ==
    \E i \in 0..(Len(s) - Len(t)) : SubSeq(s, i + 1, i + Len(t)) = t

\* the messages of the branches taken when the run of the tool returns an error
SubprocessFailures ==
    {"Failed to update repos: ", "Failed to list repos: ", "Failed to search charts: ",
     "Failed to search versions: ", "Failed to get chart values: "}

\* C11: when a fetch's subprocess fails, the error text stored on the error
\* screen contains what the subprocess wrote to standard error
C11_ErrorHasStderr ==
    (last.type = "errorMsg" /\ last.text[1] \in SubprocessFailures) =>
        (m.state = stateError /\ Contains(m.error, StderrText))

Max2(a, b) == IF a > b THEN a ELSE b
Min2(a, b) == IF a < b THEN a ELSE b

\* C12: on a list screen of length L, up/k moves the cursor to max(cursor-1, 0)
\* and down/j to min(cursor+1, L-1) (the cursor stays 0 when L = 0); nothing
\* else changes and no command is returned
C12_CursorClamped ==
    (m.state \in ListStates /\ run = "running") =>
        LET L == Len(Displayed(m))
        IN  /\ \A k \in UpKeys :
                  Update(m, KeyMsg(k)) =
                      Ret([m EXCEPT !.cursor = IF L = 0 THEN 0 ELSE Max2(m.cursor - 1, 0)],
                          NoCmd)
            /\ \A k \in DownKeys :
                  Update(m, KeyMsg(k)) =
                      Ret([m EXCEPT !.cursor = IF L = 0 THEN 0 ELSE Min2(m.cursor + 1, L - 1)],
                          NoCmd)

\* the cursor was moved down to the last row of a list longer than one page
C12_Witness ==
    /\ m.state = stateVersionList
    /\ Len(m.versions) > pageSize
    /\ m.cursor = Len(m.versions) - 1
    /\ last.type = "KeyMsg"
    /\ cmd = NoCmd
    /\ run = "running"

\* what a selection decides: the screen, the selection path, loading, the command
Selection(r) ==
    <<r.m.state, r.m.selectedRepo, r.m.selectedChart, r.m.selectedVersion,
      r.m.loading, r.cmd>>

\* the first index of the page the cursor is on, as the claims state it
PageStartOf(c) == (c \div pageSize) * pageSize

\* C13: a number key n in 1..9 whose index PageStartOf(cursor) + n - 1 is
\* below the list length records the same selection, enters the same screen
\* and returns the same fetch as enter with the cursor on that index
C13_ShortcutIsSelect ==
    (m.state \in ListStates /\ run = "running") =>
        \A n \in 1..9 :
            LET i == PageStartOf(m.cursor) + n - 1
            IN  i < Len(Displayed(m)) =>
                    /\ Selection(Update(m, KeyMsg(ToString(n)))) =
                           Selection(Update([m EXCEPT !.cursor = i], KeyMsg("enter")))
                    /\ IsFetch(Update(m, KeyMsg(ToString(n))).cmd)

\* key 2 pressed with the cursor on the first row of the second page of the
\* versions: row pageSize + 1 is selected, the cursor is where it was
C13_Witness ==
    /\ m.state = stateDownload
    /\ m.cursor = pageSize
    /\ m.selectedVersion = pageSize + 1
    /\ cmd.kind = "downloadValues"
    /\ last.type = "KeyMsg"

\* C14: on a list screen with more than PageStartOf(cursor) + 9 rows the
\* key 0 selects the row of index PageStartOf(cursor) + 9, as enter does
\* with the cursor on that row
C14_ZeroSelectsTenth ==
    (m.state \in ListStates /\ run = "running") =>
        LET i == PageStartOf(m.cursor) + 9
        IN  Len(Displayed(m)) > i =>
                Selection(Update(m, KeyMsg("0"))) =
                    Selection(Update([m EXCEPT !.cursor = i], KeyMsg("enter")))

\* the index a number key stands for on the page of cursor c: keys 1..9 the
\* rows 1..9 of the page, key 0 the 10th
ShortcutIndex(c, k) ==
    PageStartOf(c) + (IF Atoi(k) = 0 THEN pageSize - 1 ELSE Atoi(k) - 1)

\* C15: a number key whose index is at or past the end of the displayed list
\* changes nothing of the model and returns no command
C15_ShortcutPastEndNoOp ==
    (m.state \in ListStates /\ run = "running") =>
        \A k \in DigitKeys :
            ShortcutIndex(m.cursor, k) >= Len(Displayed(m)) =>
                Update(m, KeyMsg(k)) = Ret(m, NoCmd)

\* a key press left the session unchanged on the short second page of a
\* chart list, where the keys 3..9 stand for rows past the end
C15_Witness ==
    /\ m.state = stateChartList
    /\ m.cursor >= pageSize
    /\ Len(m.charts) > pageSize
    /\ ShortcutIndex(m.cursor, "3") >= Len(m.charts)
    /\ last.type = "KeyMsg"
    /\ cmd = NoCmd
    /\ run = "running"

\* C16: backspace/esc on the chart list gives the repository list with the
\* cursor on the recorded selectedRepo, on the version list the chart list
\* with the cursor on the recorded selectedChart; neither returns a command
C16_BackRestoresCursor ==
    run = "running" =>
        \A k \in BackKeys :
            LET r == Update(m, KeyMsg(k))
            IN  /\ m.state = stateChartList =>
                    /\ r.m.state = stateRepoList
                    /\ r.m.cursor = m.selectedRepo
                    /\ r.m.selectedRepo = m.selectedRepo
                    /\ r.cmd = NoCmd
                /\ m.state = stateVersionList =>
                    /\ r.m.state = stateChartList
                    /\ r.m.cursor = m.selectedChart
                    /\ r.m.selectedChart = m.selectedChart
                    /\ r.cmd = NoCmd

\* back on the repository list after a repository of the second page was
\* selected: the cursor is on that repository again
C16_Witness ==
    /\ m.state = stateRepoList
    /\ m.selectedRepo >= pageSize
    /\ m.cursor = m.selectedRepo
    /\ m.charts = <<>>
    /\ last.type = "KeyMsg"
    /\ cmd = NoCmd
    /\ run = "running"

\* the select inputs of the list screens with the index each selects: enter
\* and space the row of the cursor, the keys 1..9 the rows of the page
SelectInputs(mm) ==
    {<<k, mm.cursor>> : k \in EnterKeys} \cup
    {<<ToString(n), PageStartOf(mm.cursor) + n - 1>> : n \in 1..9}

\* C17: select(i) on a non-empty repository list with i below its length
\* records selectedRepo = i, puts the cursor on 0, sets loading, moves to the
\* chart list and returns the one chart fetch for the name of repos[i],
\* whatever was loaded before
C17_SelectRepo ==
    (m.state = stateRepoList /\ Len(m.repos) > 0 /\ run = "running") =>
        \A in \in SelectInputs(m) :
            in[2] < Len(m.repos) =>
                Update(m, KeyMsg(in[1])) =
                    Ret([m EXCEPT !.selectedRepo = in[2],
                                  !.cursor = 0,
                                  !.loading = TRUE,
                                  !.state = stateChartList],
                        loadChartsCmd(m.repos[in[2] + 1].Name))

\* the second repository was selected: its charts are being fetched
C17_Witness ==
    /\ m.state = stateChartList
    /\ m.loading
    /\ m.selectedRepo = 1
    /\ m.cursor = 0
    /\ cmd = loadChartsCmd(<<"repo2">>)
    /\ last.type = "KeyMsg"

\* C18: select(i) on a non-empty chart list with i below its length records
\* selectedChart = i, puts the cursor on 0, sets loading, moves to the
\* version list and returns the one version fetch for the qualified name of
\* charts[i]
C18_SelectChart ==
    (m.state = stateChartList /\ Len(m.charts) > 0 /\ run = "running") =>
        \A in \in SelectInputs(m) :
            in[2] < Len(m.charts) =>
                Update(m, KeyMsg(in[1])) =
                    Ret([m EXCEPT !.selectedChart = in[2],
                                  !.cursor = 0,
                                  !.loading = TRUE,
                                  !.state = stateVersionList],
                        loadVersionsCmd(m.charts[in[2] + 1].Name))

\* the second chart of the first repository was selected: its versions are
\* being fetched under its qualified name
C18_Witness ==
    /\ m.state = stateVersionList
    /\ m.loading
    /\ m.selectedChart = 1
    /\ m.cursor = 0
    /\ cmd = loadVersionsCmd(<<"repo1", "/", "chart2">>)
    /\ last.type = "KeyMsg"

\* C19: select(i) on a non-empty version list with i below its length
\* records selectedVersion = i, moves to the download screen and returns the
\* one download for (versions[i].Name, versions[i].Version); the cursor is
\* left where it was
C19_SelectVersion ==
    (m.state = stateVersionList /\ Len(m.versions) > 0 /\ run = "running") =>
        \A in \in SelectInputs(m) :
            in[2] < Len(m.versions) =>
                LET r == Update(m, KeyMsg(in[1]))
                IN  /\ r.m.selectedVersion = in[2]
                    /\ r.m.state = stateDownload
                    /\ r.m.cursor = m.cursor
                    /\ r.cmd = downloadValuesCmd(m.versions[in[2] + 1].Name,
                                                 m.versions[in[2] + 1].Version)
                    /\ r.m = [m EXCEPT !.selectedVersion = in[2],
                                       !.loading = TRUE,
                                       !.state = stateDownload]

\* a version was selected with the cursor on the fourth row: the download
\* runs and the cursor is still on that row
C19_Witness ==
    /\ m.state = stateDownload
    /\ m.loading
    /\ m.cursor = 3
    /\ m.selectedVersion = 3
    /\ cmd.kind = "downloadValues"
    /\ last.type = "KeyMsg"

\* C20: on a list screen whose sequence is empty the cursor is 0 and enter,
\* space and every digit change nothing of the model (screen, cursor,
\* selection path) and return no command
C20_EmptyListSelectNoOp ==
    (m.state \in ListStates /\ Len(Displayed(m)) = 0 /\ run = "running") =>
        /\ m.cursor = 0
        /\ \A k \in EnterKeys \cup DigitKeys :
               Update(m, KeyMsg(k)) = Ret(m, NoCmd)

\* a key press on the empty repository list after the load: nothing changed
C20_Witness ==
    /\ m.state = stateRepoList
    /\ m.repos = <<>>
    /\ ~m.loading
    /\ m.cursor = 0
    /\ last.type = "KeyMsg"
    /\ cmd = NoCmd
    /\ run = "running"

\* C21: when repoUpdateMsg has been applied the screen is the repository
\* list with loading set and the command returned is the one loadRepos
C21_RefreshedShowsRepoList ==
    last.type = "repoUpdateMsg" =>
        /\ m.state = stateRepoList
        /\ m.loading
        /\ cmd = loadReposCmd

\* C22: for a list of L >= 1 rows and a cursor c with 0 <= c < L,
\* getPageStart is (c div pageSize) * pageSize, getPageEnd(L) is
\* min(pageStart + pageSize, L), and View draws exactly the rows with index
\* in [pageStart, pageEnd): pageEnd - pageStart rows, between 1 and pageSize
C22_PageBounds ==
    LET L == Len(Displayed(m))
        c == m.cursor
        ps == (c \div pageSize) * pageSize
        pe == Min2(ps + pageSize, L)
    IN  (m.state \in ListStates /\ L >= 1 /\ 0 <= c /\ c < L) =>
            /\ getPageStart(m) = ps
            /\ getPageEnd(m, L) = pe
            /\ {ViewRows(m)[j] : j \in DOMAIN ViewRows(m)} =
                   {i \in 0..(L - 1) : ps <= i /\ i < pe}
            /\ Len(ViewRows(m)) = pe - ps
            /\ 1 <= Len(ViewRows(m)) /\ Len(ViewRows(m)) <= pageSize

\* the cursor was moved to the only row of the third page
C22_Witness ==
    /\ m.state = stateRepoList
    /\ Len(m.repos) = 2 * pageSize + 1
    /\ m.cursor = 2 * pageSize
    /\ Len(ViewRows(m)) = 1
    /\ last.type = "KeyMsg"

\* C23: when downloadCompleteMsg(filename) has been applied the screen is
\* Complete, loading is cleared and the stored message contains the filename
\* delivered, which is the file written; on the download screen the message
\* changes nothing else
C23_DownloadCompletes ==
    /\ last.type = "downloadCompleteMsg" =>
           /\ m.state = stateComplete
           /\ ~m.loading
           /\ last.text # <<>>
           /\ Contains(m.message, last.text)
           /\ last.text \in files
    /\ (m.state = stateDownload /\ run = "running") =>
           \A c \in BagToSet(inflight) :
               c.kind = "downloadValues" =>
                   LET f == Filename(c.args[1], c.args[2])
                       r == Update(m, downloadCompleteMsg(f))
                   IN  /\ r.cmd = NoCmd
                       /\ r.m = [m EXCEPT !.loading = FALSE,
                                          !.state = stateComplete,
                                          !.message = <<"Successfully downloaded: ">> \o f]
                       /\ Contains(r.m.message, f)

\* the values of a chart were written and the success message names the file
C23_Witness ==
    /\ last.type = "downloadCompleteMsg"
    /\ m.state = stateComplete
    /\ Contains(m.message, last.text)
    /\ Contains(last.text, <<"-default-values.yaml">>)
    /\ files # {}

\* C24: in every state of a running program, on every screen and whether
\* loading or not, q and ctrl+c return the quit command and the model
\* unchanged; a program that has quit did so with its model as it was
C24_QuitEverywhere ==
    /\ run = "running" =>
           \A k \in QuitKeys : Update(m, KeyMsg(k)) = Ret(m, Quit)
    /\ run = "quit" => (cmd = Quit /\ last.type = "KeyMsg")

\* the program has quit on the download screen while the download was
\* running, where no other key quits
C24_Witness ==
    /\ run = "quit"
    /\ m.state = stateDownload
    /\ m.loading
    /\ InFlight("downloadValues")

\* the screens from the start of the download on
AfterSelection == {stateDownload, stateComplete, stateError}

\* C25: at most one downloadValues command is issued in a run (it is returned
\* only by the step from the version list to the download screen, and no step
\* leads from the download, complete or error screen back to a list), and
\* whenever the screen is Complete exactly one file has been written
C25_OneArtifact ==
    /\ [][/\ cmd'.kind = "downloadValues" =>
                /\ m.state = stateVersionList
                /\ m'.state = stateDownload
                /\ ~InFlight("downloadValues")
                /\ files = {}
                /\ BagIn(cmd', inflight') /\ CopiesIn(cmd', inflight') = 1
          /\ m.state \in AfterSelection =>
                /\ m'.state \in AfterSelection
                /\ \A c \in BagToSet(inflight') :
                       c.kind = "downloadValues" => BagIn(c, inflight)
          /\ Cardinality(files') <= 1
         ]_vars
    /\ [](m.state = stateComplete => Cardinality(files) = 1)

\* the run is complete and its one file is written
C25_Witness ==
    /\ m.state = stateComplete
    /\ Cardinality(files) = 1
    /\ ~InFlight("downloadValues")
    /\ last.type = "downloadCompleteMsg"

WriteFailure == <<"Failed to write values file: ">>

\* C26: when helm show values succeeds and os.WriteFile fails, downloadValues
\* delivers an errorMsg with the write-specific text and no
\* downloadCompleteMsg; the session is then on the error screen with that
\* text, without a file and without a success message, and the error screen
\* is not left for Complete once no download is running
C26_WriteFailureFails ==
    /\ [](\A c \in BagToSet(inflight) :
              c.kind = "downloadValues" =>
                  LET msg == downloadValues(c.args[1], c.args[2],
                                            [tool |-> ToolEmpty, w |-> TRUE])
                  IN  /\ msg.type = "errorMsg"
                      /\ msg.text = WriteFailure \o WriteText)
    /\ []((last.type = "errorMsg" /\ SubSeq(last.text, 1, 1) = WriteFailure) =>
              /\ m.state = stateError
              /\ m.error = last.text
              /\ m.message = <<>>
              /\ files = {}
              /\ ~InFlight("downloadValues"))
    /\ [][(m.state = stateError /\ ~InFlight("downloadValues")) =>
              m'.state = stateError]_vars

\* the write of the values file failed: the error screen shows it
C26_Witness ==
    /\ last.type = "errorMsg"
    /\ SubSeq(last.text, 1, 1) = WriteFailure
    /\ m.state = stateError
    /\ m.error = WriteFailure \o WriteText
    /\ files = {}

\* C27: backspace/esc on the chart list empties charts, on the version list
\* empties versions, and apart from the screen and the cursor changes nothing
\* else: repos, the parent sequence, selectedRepo, selectedChart,
\* selectedVersion, loading, error and message stay as they were
C27_BackDiscardsChild ==
    run = "running" =>
        \A k \in BackKeys :
            /\ m.state = stateChartList =>
                   Update(m, KeyMsg(k)) =
                       Ret([m EXCEPT !.state = stateRepoList,
                                     !.cursor = m.selectedRepo,
                                     !.charts = <<>>],
                           NoCmd)
            /\ m.state = stateVersionList =>
                   Update(m, KeyMsg(k)) =
                       Ret([m EXCEPT !.state = stateChartList,
                                     !.cursor = m.selectedChart,
                                     !.versions = <<>>],
                           NoCmd)

\* back on the chart list while the versions were still loading: the
\* versions are empty, the charts are kept and loading is still set
C27_Witness ==
    /\ m.state = stateChartList
    /\ m.charts # <<>>
    /\ m.versions = <<>>
    /\ m.loading
    /\ InFlight("loadVersions")
    /\ last.type = "KeyMsg"
    /\ cmd = NoCmd

\* C28: reposLoadedMsg, chartsLoadedMsg and versionsLoadedMsg put the
\* delivered list in repos, charts and versions, clear loading and set the
\* cursor to 0; chartsLoadedMsg and versionsLoadedMsg change nothing else,
\* on whatever screen they arrive
C28_LoadedReplaces ==
    /\ run = "running" =>
           \A n \in ListLens :
               LET rl == RepoList(n)
                   cl == ChartList(<<"repo1">>, n)
                   vl == VersionList(<<"repo1", "/", "chart1">>, n)
                   r == Update(m, reposLoadedMsg(rl))
               IN  /\ r.m.repos = rl /\ ~r.m.loading /\ r.m.cursor = 0
                   /\ r.cmd = NoCmd
                   /\ Update(m, chartsLoadedMsg(cl)) =
                          Ret([m EXCEPT !.charts = cl, !.loading = FALSE, !.cursor = 0],
                              NoCmd)
                   /\ Update(m, versionsLoadedMsg(vl)) =
                          Ret([m EXCEPT !.versions = vl, !.loading = FALSE, !.cursor = 0],
                              NoCmd)
    /\ last.type = "reposLoadedMsg" =>
           (m.repos = last.list /\ ~m.loading /\ m.cursor = 0)
    /\ last.type = "chartsLoadedMsg" =>
           (m.charts = last.list /\ ~m.loading /\ m.cursor = 0)
    /\ last.type = "versionsLoadedMsg" =>
           (m.versions = last.list /\ ~m.loading /\ m.cursor = 0)

\* the charts arrive after the user went back to the repository list: they
\* are stored and the screen stays the repository list
C28_Witness ==
    /\ last.type = "chartsLoadedMsg"
    /\ m.state = stateRepoList
    /\ m.charts = last.list
    /\ m.charts # <<>>
    /\ ~m.loading

\* C29: on the repository-update screen and on the download screen every key
\* other than q and ctrl+c returns the model unchanged and no command, so
\* the screen stays until the message of the running command arrives
C29_WaitingScreensIgnoreKeys ==
    (m.state \in {stateRepoUpdate, stateDownload} /\ run = "running") =>
        \A k \in Keys \ QuitKeys : Update(m, KeyMsg(k)) = Ret(m, NoCmd)

\* a key was pressed on the download screen while the download runs: the
\* screen is still the download screen
C29_Witness ==
    /\ m.state = stateDownload
    /\ m.loading
    /\ InFlight("downloadValues")
    /\ last.type = "KeyMsg"
    /\ cmd = NoCmd
    /\ run = "running"

\* C30: updateRepos is issued once, by Init, and never returned by Update;
\* loadRepos is returned only by the step that consumes that one updateRepos,
\* so at most once; reposLoadedMsg arrives only on the repository-update
\* screen, which is never entered again, and after it repos never changes
C30_ReposLoadedOnce ==
    /\ (cmd = updateReposCmd /\ inflight = SetToBag({updateReposCmd}))
    /\ [][/\ cmd'.kind # "updateRepos"
          /\ CopiesIn(updateReposCmd, inflight') <= CopiesIn(updateReposCmd, inflight)
          /\ cmd'.kind = "loadRepos" =>
                /\ last'.type = "repoUpdateMsg"
                /\ CopiesIn(updateReposCmd, inflight) = 1
                /\ CopiesIn(updateReposCmd, inflight') = 0
                /\ CopiesIn(loadReposCmd, inflight') = 1
          /\ last'.type = "reposLoadedMsg" => m.state = stateRepoUpdate
          /\ m.state # stateRepoUpdate =>
                /\ m'.state # stateRepoUpdate
                /\ m'.repos = m.repos
                /\ ~InFlight("updateRepos")
                /\ CopiesIn(loadReposCmd, inflight') = 0
         ]_vars

\* the charts of a repository arrive: the repositories loaded at the start
\* are still there and nothing that could replace them is running
C30_Witness ==
    /\ last.type = "chartsLoadedMsg"
    /\ m.state = stateChartList
    /\ m.repos = RepoList(MaxLen)
    /\ ~InFlight("updateRepos")
    /\ ~InFlight("loadRepos")

\* C31: for a list of L >= 1 rows and a cursor c with 0 <= c < L the cursor
\* is on the displayed page, pageStart <= c < pageEnd, and exactly one
\* displayed row carries the marker, the (c mod pageSize + 1)-th
C31_MarkerOnPage ==
    LET L == Len(Displayed(m))
        c == m.cursor
    IN  (m.state \in ListStates /\ L >= 1 /\ 0 <= c /\ c < L) =>
            /\ getPageStart(m) <= c
            /\ c < getPageEnd(m, L)
            /\ ViewMarked(m) = {(c % pageSize) + 1}
            /\ Cardinality(ViewMarked(m)) = 1
            /\ ViewRows(m)[(c % pageSize) + 1] = c

\* 25 rows with the cursor on index 23: the page is [20, 25) and the marker
\* is on the 4th displayed row
C31_Witness ==
    /\ m.state = stateRepoList
    /\ Len(m.repos) = 25
    /\ m.cursor = 23
    /\ getPageStart(m) = 20
    /\ getPageEnd(m, Len(m.repos)) = 25
    /\ ViewMarked(m) = {4}
    /\ last.type = "KeyMsg"

\* the qualified name and the version the download was started for, and the
\* name of the repository it was selected in
DownloadedName == At(m.versions, m.selectedVersion).Name
DownloadedVersion == At(m.versions, m.selectedVersion).Version
DownloadedRepo == At(m.repos, m.selectedRepo).Name

\* s after its last "/", all of s when it has none
AfterLastSlash(s) ==
    LET slashes == {i \in 1..Len(s) : s[i] = "/"}
    IN  IF slashes = {} THEN s
        ELSE SubSeq(s, (CHOOSE i \in slashes : \A j \in slashes : j <= i) + 1, Len(s))

SlashCount(s) == Cardinality({i \in 1..Len(s) : s[i] = "/"})

\* C32 as stated: the file delivered is named by the qualified name with the
\* prefix "<repository>/" stripped, then "-", the version and
\* "-default-values.yaml", for every qualified name
C32_PrefixStripped ==
    last.type = "downloadCompleteMsg" =>
        last.text = TrimPrefix(DownloadedName, DownloadedRepo \o <<"/">>)
                        \o <<"-">> \o DownloadedVersion \o <<"-default-values.yaml">>

\* C32 amended: the file delivered and written is named by the part of the
\* qualified name after its last "/" (the whole name when it has none), then
\* "-", the version and "-default-values.yaml"; this is the name with the
\* repository prefix stripped when the name has at most one "/"
C32_LastSegmentNamesFile ==
    last.type = "downloadCompleteMsg" =>
        /\ last.text = AfterLastSlash(DownloadedName)
                           \o <<"-">> \o DownloadedVersion \o <<"-default-values.yaml">>
        /\ files = {last.text}
        /\ SlashCount(DownloadedName) <= 1 =>
               AfterLastSlash(DownloadedName) =
                   TrimPrefix(DownloadedName, DownloadedRepo \o <<"/">>)

\* the values of a chart listed as repo1/sub/chart1 were written
C32_Witness ==
    /\ last.type = "downloadCompleteMsg"
    /\ DownloadedName = <<"repo1", "/", "sub", "/", "chart1">>
    /\ last.text = <<"chart1", "-", "v1", "-default-values.yaml">>
    /\ m.state = stateComplete

\* C33: in every reachable state the indexes View reads are inside the
\* sequences: on the chart list with loading false selectedRepo < len(repos),
\* on the version list with loading false selectedRepo < len(repos) and
\* selectedChart < len(charts)
C33_ViewIndexesInRange ==
    /\ (m.state = stateChartList /\ ~m.loading) =>
           m.selectedRepo < Len(m.repos)
    /\ (m.state = stateVersionList /\ ~m.loading) =>
           /\ m.selectedRepo < Len(m.repos)
           /\ m.selectedChart < Len(m.charts)

\* C34: a non-empty charts sequence on the chart list is the list helm gives
\* for repos[selectedRepo], a non-empty versions sequence on the version list
\* is the list helm gives for charts[selectedChart], and a download is
\* started only for the chart at selectedChart
C34_DisplayedMatchesSelection ==
    /\ (m.state = stateChartList /\ m.charts # <<>>) =>
           m.charts = ChartList(At(m.repos, m.selectedRepo).Name, Len(m.charts))
    /\ (m.state = stateVersionList /\ m.versions # <<>>) =>
           /\ m.selectedChart < Len(m.charts)
           /\ m.versions = VersionList(At(m.charts, m.selectedChart).Name, Len(m.versions))
    /\ cmd.kind = "downloadValues" =>
           /\ m.selectedChart < Len(m.charts)
           /\ cmd.args[1] = At(m.charts, m.selectedChart).Name

\* C35: when every running command terminates and has its message applied,
\* a session that is loading is later not loading, or the program has ended;
\* and the repository-update screen is later left for the repository list or
\* the error screen, or the program has ended
C35_LoadingResolves ==
    /\ (m.loading /\ run = "running") ~> (~m.loading \/ run # "running")
    /\ (m.state = stateRepoUpdate /\ run = "running") ~>
           (m.state \in {stateRepoList, stateError} \/ run # "running")

\* the versions have arrived on the version list: loading, set by the
\* selection of the chart, is cleared and nothing is running any more
C35_Witness ==
    /\ last.type = "versionsLoadedMsg"
    /\ m.state = stateVersionList
    /\ ~m.loading
    /\ inflight = EmptyBag
    /\ run = "running"

====
